---- MODULE Spec2Model ----
(***************************************************************************)
(* Model of the structured-logging pipeline of python-logging-patterns:    *)
(*   utils/logging/loggers.py  JsonFormatter, NonErrorFilter               *)
(*   utils/logging/setup.py    setup_logging (queue listener start / stop) *)
(*   main.py                   the producer's log calls                    *)
(* Two specifications share the module: FmtSpec drives the formatter over  *)
(* bounded records and field mappings, Spec drives the producer / queue /  *)
(* listener / sink pipeline.                                               *)
(***************************************************************************)
EXTENDS Integers, Sequences, FiniteSets, TLC

VARIABLES
    fmt_keys,      \* JsonFormatter.fmt_keys: ordered <<output key, source>> pairs
    record,        \* formatter harness: the LogRecord last made by a log call
    result,        \* formatter harness: what JsonFormatter.format gave for it
    fpc,           \* formatter harness: "idle" | "made" | "raised" | "formatted"
    listeners,     \* every QueueListener dictConfig has built, in build order
    atexitHooks,   \* atexit's registry: listener index per registered stop
    phase,         \* process: "running" | "exiting" | "exited"
    hookpc,        \* exit hook being run: 0 (none) or the listener it joins
    queueConfigured, \* does the configuration define a handler "queue_handler"
    setupCalls,    \* number of calls of setup_logging so far
    clock,         \* number of log calls made so far (stamps record.created)
    stdout,        \* lines written by the sink that carries NonErrorFilter
    stderr,        \* lines written by the sink with threshold WARNING
    fallback,      \* records whose emit failed (Handler.handleError channel)
    dispatched,    \* the records handed to the sinks so far
    producerRaised \* TRUE once a log call has raised into the producer

vars == <<fmt_keys, record, result, fpc, listeners, atexitHooks, phase, hookpc,
          queueConfigured, setupCalls, clock, stdout, stderr, fallback,
          dispatched, producerRaised>>

fmtVars == <<record, result, fpc>>
pipeVars == <<listeners, atexitHooks, phase, hookpc, queueConfigured,
              setupCalls, clock, stdout, stderr, fallback, dispatched,
              producerRaised>>

(***************************************************************************)
(* Bounds                                                                  *)
(***************************************************************************)
MaxMapLen == 2
MaxExtras == 2
MaxSetups == 2
MaxLogs == 2

(***************************************************************************)
(* Python values.  Every value is a string; PyNone stands for None, and    *)
(* the values of ObjValues are objects json has no native encoding for.    *)
(***************************************************************************)
PyNone == "<None>"
Missing == "<missing>"
ObjValues == {"<object E>"}

\* logging.INFO, and the levels with their names (logging._levelToName)
INFO == 20
LevelName(n) ==
    CASE n = 10 -> "DEBUG"
      [] n = 20 -> "INFO"
      [] n = 30 -> "WARNING"
      [] n = 40 -> "ERROR"
      [] n = 50 -> "CRITICAL"

LOG_RECORD_BUILTIN_ATTRS ==
    {"args", "asctime", "created", "exc_info", "exc_text", "filename",
     "funcName", "levelname", "levelno", "lineno", "message", "module",
     "msecs", "msg", "name", "pathname", "process", "processName",
     "relativeCreated", "stack_info", "taskName", "thread", "threadName"}

(***************************************************************************)
(* Ordered dictionaries (Python dict): a sequence of [k, v] with distinct  *)
(* keys; assigning to a present key keeps its position.                    *)
(***************************************************************************)
DictKeys(d) == [i \in 1..Len(d) |-> d[i].k]
DictHas(d, key) == \E i \in 1..Len(d) : d[i].k = key
DictGet(d, key) == d[CHOOSE i \in 1..Len(d) : d[i].k = key].v
DictRemove(d, key) == SelectSeq(d, LAMBDA e : e.k # key)
DictSet(d, key, val) ==
    IF DictHas(d, key)
    THEN [i \in 1..Len(d) |->
            IF d[i].k = key THEN [k |-> key, v |-> val] ELSE d[i]]
    ELSE Append(d, [k |-> key, v |-> val])

RECURSIVE DictUpdate(_, _)
DictUpdate(d, other) ==
    IF other = <<>> THEN d
    ELSE DictUpdate(DictSet(d, Head(other).k, Head(other).v), Tail(other))

(***************************************************************************)
(* LogRecord                                                               *)
(***************************************************************************)
\* record.getMessage(): msg % args when args are given, else msg
PercentFormat(msg, args) ==
    IF msg = "user %s" THEN "user " \o args[1] ELSE msg

getMessage(r) ==
    IF r.args = <<>> THEN r.msg ELSE PercentFormat(r.msg, r.args)

\* dt.datetime.fromtimestamp(created, tz=utc).isoformat()
IsoFormatUtc(created) ==
    "1970-01-01T00:00:" \o (IF created < 10 THEN "0" ELSE "")
        \o ToString(created) \o "+00:00"

\* logging.Formatter.formatException / formatStack
formatException(ei) == "Traceback (most recent call last): " \o ei
formatStack(si) == si

\* record.__dict__ keys the caller added through extra=, in insertion order
ExtraKeys(r) == DictKeys(r.extra)

\* getattr(record, name), for the attributes the mappings of this model
\* name as sources: [ok |-> FALSE] stands for AttributeError
GetAttr(r, name) ==
    CASE name = "levelname" -> [ok |-> TRUE, v |-> LevelName(r.levelno)]
      [] name = "name" -> [ok |-> TRUE, v |-> r.name]
      [] name = "msg" -> [ok |-> TRUE, v |-> r.msg]
      [] name = "exc_info" -> [ok |-> TRUE, v |-> r.exc_info]
      [] name = "stack_info" -> [ok |-> TRUE, v |-> r.stack_info]
      [] name = "message" ->
            IF r.message = Missing THEN [ok |-> FALSE, v |-> PyNone]
            ELSE [ok |-> TRUE, v |-> r.message]
      [] DictHas(r.extra, name) -> [ok |-> TRUE, v |-> DictGet(r.extra, name)]
      [] OTHER -> [ok |-> FALSE, v |-> PyNone]

(***************************************************************************)
(* JsonFormatter                                                           *)
(***************************************************************************)
\* AlwaysFields with the message template in place of the rendered message
AlwaysFieldsRawMsg(r) ==
    LET base == <<[k |-> "message", v |-> r.msg],
                  [k |-> "timestamp", v |-> IsoFormatUtc(r.created)]>>
        withExc == IF r.exc_info # PyNone
                   THEN DictSet(base, "exc_info", formatException(r.exc_info))
                   ELSE base
    IN  IF r.stack_info # PyNone
        THEN DictSet(withExc, "stack_info", formatStack(r.stack_info))
        ELSE withExc

\* the always_fields dictionary before the mapping is applied
AlwaysFields(r) ==
    LET base == <<[k |-> "message", v |-> getMessage(r)],
                  [k |-> "timestamp", v |-> IsoFormatUtc(r.created)]>>
        withExc == IF r.exc_info # PyNone
                   THEN DictSet(base, "exc_info", formatException(r.exc_info))
                   ELSE base
    IN  IF r.stack_info # PyNone
        THEN DictSet(withExc, "stack_info", formatStack(r.stack_info))
        ELSE withExc

\* one item of the comprehension over fmt_keys.items(): always_fields.pop(val,
\* None) when that is not None, else getattr(record, val)
MapOne(r, always, val) ==
    IF DictHas(always, val) /\ DictGet(always, val) # PyNone
    THEN [ok |-> TRUE, v |-> DictGet(always, val),
          always |-> DictRemove(always, val)]
    ELSE [ok |-> GetAttr(r, val).ok, v |-> GetAttr(r, val).v,
          always |-> DictRemove(always, val)]

\* the comprehension: message = {key: ... for key, val in fmt_keys.items()}
RECURSIVE MapFields(_, _, _, _)
MapFields(r, fk, always, message) ==
    IF fk = <<>> THEN [ok |-> TRUE, always |-> always, message |-> message]
    ELSE LET one == MapOne(r, always, Head(fk)[2])
         IN  IF ~one.ok
             THEN [ok |-> FALSE, always |-> one.always, message |-> message]
             ELSE MapFields(r, Tail(fk), one.always,
                            DictSet(message, Head(fk)[1], one.v))

\* AddExtras that leaves a key the dictionary already holds (setdefault)
RECURSIVE AddExtrasKeepExisting(_, _)
AddExtrasKeepExisting(message, extra) ==
    IF extra = <<>> THEN message
    ELSE AddExtrasKeepExisting(
            IF Head(extra).k \notin LOG_RECORD_BUILTIN_ATTRS
               /\ ~DictHas(message, Head(extra).k)
            THEN DictSet(message, Head(extra).k, Head(extra).v)
            ELSE message,
            Tail(extra))

\* the loop over record.__dict__.items() adding the non-builtin attributes
RECURSIVE AddExtras(_, _)
AddExtras(message, extra) ==
    IF extra = <<>> THEN message
    ELSE AddExtras(
            IF Head(extra).k \notin LOG_RECORD_BUILTIN_ATTRS
            THEN DictSet(message, Head(extra).k, Head(extra).v)
            ELSE message,
            Tail(extra))

\* message.update(always_fields)
UpdateWithAlways(message, always) == DictUpdate(message, always)

\* JsonFormatter._prepare_log_dict; [ok |-> FALSE] stands for AttributeError
PrepareLogDict(fk, r) ==
    LET mapped == MapFields(r, fk, AlwaysFields(r), <<>>)
    IN  IF ~mapped.ok THEN [ok |-> FALSE, dict |-> <<>>]
        ELSE [ok |-> TRUE,
              dict |-> AddExtras(UpdateWithAlways(mapped.message, mapped.always),
                                 r.extra)]

\* json.dumps(..., default=str): str() of a value json cannot encode
JsonDefault(v) == IF v \in ObjValues THEN "str(" \o v \o ")" ELSE v

Dumps(d) == [i \in 1..Len(d) |-> [k |-> d[i].k, v |-> JsonDefault(d[i].v)]]

\* JsonFormatter.format: the JSON object as its ordered key/value pairs
format(fk, r) ==
    LET prepared == PrepareLogDict(fk, r)
    IN  IF prepared.ok THEN [ok |-> TRUE, json |-> Dumps(prepared.dict)]
        ELSE [ok |-> FALSE, json |-> <<>>]

\* NonErrorFilter with the bound off by one
NonErrorFilterBelowInfo(r) == r.levelno < INFO

\* NonErrorFilter.filter
NonErrorFilter(r) == r.levelno <= INFO

(***************************************************************************)
(* Inputs of the formatter harness                                         *)
(***************************************************************************)
OutKeys == {"level", "message", "note"}
Sources == {"levelname", "message", "timestamp", "note"}
ExtraNames == {"note", "timestamp", "message"}
ExtraValues == {"some extra info here"} \cup ObjValues
HarnessLevels == {20, 30}
Messages == {[msg |-> "Started application", args |-> <<>>],
             [msg |-> "user %s", args |-> <<"bob">>]}

DistinctKeys(s, keyOf(_)) ==
    \A i, j \in 1..Len(s) : i # j => keyOf(s[i]) # keyOf(s[j])

\* every fmt_keys dictionary of at most MaxMapLen entries
Mappings ==
    {m \in UNION {[1..n -> OutKeys \X Sources] : n \in 0..MaxMapLen} :
        DistinctKeys(m, LAMBDA e : e[1])}

\* every extra= dictionary of at most MaxExtras entries
ExtraDicts ==
    {x \in UNION {[1..n -> [k : ExtraNames, v : ExtraValues]] : n \in 0..MaxExtras} :
        DistinctKeys(x, LAMBDA e : e.k)}

NoRecord == [levelno |-> 0, name |-> "", msg |-> "", args |-> <<>>, created |-> 0,
             exc_info |-> PyNone, stack_info |-> PyNone, message |-> Missing,
             extra |-> <<>>]
NoResult == [ok |-> FALSE, json |-> <<>>]

\* Logger.makeRecord as the log call of main.py reaches it: a key of extra=
\* that is "message", "asctime" or already in the record's __dict__ is refused
\* with KeyError
ExtraRefused(extra) ==
    \E i \in 1..Len(extra) :
        extra[i].k \in {"message", "asctime"} \cup LOG_RECORD_BUILTIN_ATTRS

MakeRecord(level, m, extra, ei, si, created) ==
    [levelno |-> level, name |-> "app", msg |-> m.msg, args |-> m.args,
     created |-> created, exc_info |-> ei, stack_info |-> si,
     message |-> Missing, extra |-> extra]

(***************************************************************************)
(* Formatter harness: a log call makes a record, the formatter formats it  *)
(***************************************************************************)
FInit ==
    /\ fmt_keys \in Mappings
    /\ record = NoRecord
    /\ result = NoResult
    /\ fpc = "idle"
    /\ listeners = <<>>
    /\ atexitHooks = <<>>
    /\ phase = "running"
    /\ hookpc = 0
    /\ queueConfigured = FALSE
    /\ setupCalls = 0
    /\ clock = 0
    /\ stdout = <<>>
    /\ stderr = <<>>
    /\ fallback = <<>>
    /\ dispatched = {}
    /\ producerRaised = FALSE

FLogCall ==
    /\ fpc = "idle"
    /\ \E level \in HarnessLevels, m \in Messages, extra \in ExtraDicts,
          ei \in {PyNone, "ValueError: boom"}, si \in {PyNone, "Stack (most recent call last)"} :
            IF ExtraRefused(extra)
            THEN /\ fpc' = "raised"
                 /\ record' = record
            ELSE /\ fpc' = "made"
                 /\ record' = MakeRecord(level, m, extra, ei, si, 1)
    /\ UNCHANGED <<fmt_keys, result>>
    /\ UNCHANGED pipeVars

FFormat ==
    /\ fpc = "made"
    /\ result' = format(fmt_keys, record)
    /\ fpc' = "formatted"
    /\ UNCHANGED <<fmt_keys, record>>
    /\ UNCHANGED pipeVars

FNext == FLogCall \/ FFormat

FmtSpec == FInit /\ [][FNext]_vars

(***************************************************************************)
(* Pipeline: configuration                                                 *)
(***************************************************************************)
\* the formatter's field mapping the configuration gives the sinks
PipelineMappings ==
    {<< <<"level", "levelname">>, <<"message", "message">>,
        <<"timestamp", "timestamp">> >>,
     << <<"note", "note">> >>}

\* the log calls the producers make: <<level, extra>>
NoteExtra == <<[k |-> "note", v |-> "some extra info here"]>>
LogCalls == {<<10, <<>> >>, <<20, NoteExtra>>, <<30, <<>> >>, <<40, NoteExtra>>,
             <<50, <<>> >>}

\* the sink that carries NonErrorFilter: Handler.handle emits iff the filter
\* accepts
StdoutAccepts(r) == NonErrorFilter(r)

\* the sink with threshold WARNING
StderrAccepts(r) == r.levelno >= 30

(***************************************************************************)
(* Pipeline: handlers                                                      *)
(***************************************************************************)
\* QueueHandler.prepare: the record as it is put on the queue
Prepare(r) ==
    [r EXCEPT !.message = getMessage(r), !.msg = getMessage(r), !.args = <<>>,
              !.exc_info = PyNone, !.stack_info = PyNone]

\* Emit with the formatter's exception escaping the handler
EmitUncaught(r) ==
    IF format(fmt_keys, r).ok
    THEN [kind |-> "written", line |-> format(fmt_keys, r).json]
    ELSE [kind |-> "raised", line |-> <<>>]

\* a sink's emit: the formatter runs inside the handler's try, an exception
\* goes to Handler.handleError and is not raised again
Emit(r) ==
    IF format(fmt_keys, r).ok
    THEN [kind |-> "written", line |-> format(fmt_keys, r).json]
    ELSE [kind |-> "error", line |-> <<>>]

Line(r, e) == [created |-> r.created, levelno |-> r.levelno, line |-> e.line]

\* the record offered to both sinks in registration order
HandleAll(r, so, se, fb) ==
    LET e == Emit(r)
        toOut == StdoutAccepts(r)
        toErr == StderrAccepts(r)
    IN  [stdout |-> IF toOut /\ e.kind = "written"
                    THEN Append(so, Line(r, e)) ELSE so,
         stderr |-> IF toErr /\ e.kind = "written"
                    THEN Append(se, Line(r, e)) ELSE se,
         fallback |-> IF (toOut \/ toErr) /\ e.kind = "error"
                      THEN Append(fb, r.created) ELSE fb,
         raised |-> (toOut \/ toErr) /\ e.kind = "raised"]

(***************************************************************************)
(* Pipeline: queue and listener                                            *)
(***************************************************************************)
Sentinel == [kind |-> "sentinel"]
Item(r) == [kind |-> "record", rec |-> r]

\* QueueGet of a LIFO queue
QueueGetLast(q) == q[Len(q)]

\* queue.Queue: put at the tail, get from the head
QueuePut(q, item) == Append(q, item)
QueueGet(q) == Head(q)
QueueRest(q) == Tail(q)

\* the listener dictConfig builds with its queue handler
NewListener ==
    [queue |-> <<>>, thread |-> "unstarted", enqueued |-> <<>>, handled |-> <<>>,
     preStop |-> -1, pendingAtStop |-> 0, stopReturned |-> FALSE]

\* QueueListener.start
Start(l) == [l EXCEPT !.thread = "running"]

\* a stop that does not wait for the thread
StopMayReturnNoJoin(l) == TRUE

\* QueueListener.stop returns once the join of the listener's thread does
StopMayReturn(l) == listeners[l].thread # "running"

RunningThreads == {l \in 1..Len(listeners) : listeners[l].thread = "running"}

Init ==
    /\ fmt_keys \in PipelineMappings
    /\ record = NoRecord
    /\ result = NoResult
    /\ fpc = "idle"
    /\ listeners = <<>>
    /\ atexitHooks = <<>>
    /\ phase = "running"
    /\ hookpc = 0
    /\ queueConfigured \in BOOLEAN
    /\ setupCalls = 0
    /\ clock = 0
    /\ stdout = <<>>
    /\ stderr = <<>>
    /\ fallback = <<>>
    /\ dispatched = {}
    /\ producerRaised = FALSE

\* setup_logging
SetupLogging ==
    /\ phase = "running"
    /\ setupCalls < MaxSetups
    /\ setupCalls' = setupCalls + 1
    /\ IF queueConfigured
       THEN /\ listeners' = Append(listeners, Start(NewListener))
            /\ atexitHooks' = Append(atexitHooks, Len(listeners) + 1)
       ELSE UNCHANGED <<listeners, atexitHooks>>
    /\ UNCHANGED <<fmt_keys, phase, hookpc, queueConfigured, clock, stdout,
                   stderr, fallback, dispatched, producerRaised>>
    /\ UNCHANGED fmtVars

\* a producer's log call: through the queue handler when one is configured,
\* else straight to the sinks
Log ==
    /\ setupCalls >= 1
    /\ phase # "exited"
    /\ clock < MaxLogs
    /\ \E call \in LogCalls :
        LET r == MakeRecord(call[1], [msg |-> "Started application", args |-> <<>>],
                            call[2], PyNone, PyNone, clock + 1)
            cur == Len(listeners)
            h == HandleAll(r, stdout, stderr, fallback)
        IN  IF queueConfigured
            THEN /\ listeners' =
                        [listeners EXCEPT
                            ![cur].queue = QueuePut(@, Item(Prepare(r))),
                            ![cur].enqueued = Append(@, r.created)]
                 /\ UNCHANGED <<stdout, stderr, fallback, dispatched,
                                producerRaised>>
            ELSE /\ stdout' = h.stdout
                 /\ stderr' = h.stderr
                 /\ fallback' = h.fallback
                 /\ dispatched' = dispatched \cup {r}
                 /\ producerRaised' = (producerRaised \/ h.raised)
                 /\ UNCHANGED listeners
    /\ clock' = clock + 1
    /\ UNCHANGED <<fmt_keys, atexitHooks, phase, hookpc, queueConfigured,
                   setupCalls>>
    /\ UNCHANGED fmtVars

\* one turn of the listener thread's loop: take an item; the sentinel ends
\* the thread, a record goes to the sinks
Monitor(l) ==
    /\ listeners[l].thread = "running"
    /\ listeners[l].queue # <<>>
    /\ LET item == QueueGet(listeners[l].queue)
           rest == QueueRest(listeners[l].queue)
       IN  IF item = Sentinel
           THEN /\ listeners' = [listeners EXCEPT ![l].queue = rest,
                                                  ![l].thread = "exited"]
                /\ UNCHANGED <<stdout, stderr, fallback, dispatched>>
           ELSE LET h == HandleAll(item.rec, stdout, stderr, fallback)
                IN  /\ listeners' =
                          [listeners EXCEPT
                              ![l].queue = rest,
                              ![l].handled = Append(@, item.rec.created),
                              ![l].thread = IF h.raised THEN "crashed" ELSE @]
                    /\ stdout' = h.stdout
                    /\ stderr' = h.stderr
                    /\ fallback' = h.fallback
                    /\ dispatched' = dispatched \cup {item.rec}
    /\ UNCHANGED <<fmt_keys, atexitHooks, phase, hookpc, queueConfigured,
                   setupCalls, clock, producerRaised>>
    /\ UNCHANGED fmtVars

\* normal process exit begins: atexit will run its hooks
Exit ==
    /\ phase = "running"
    /\ setupCalls >= 1
    /\ phase' = "exiting"
    /\ UNCHANGED <<fmt_keys, listeners, atexitHooks, hookpc, queueConfigured,
                   setupCalls, clock, stdout, stderr, fallback, dispatched,
                   producerRaised>>
    /\ UNCHANGED fmtVars

\* atexit calls the hook registered last: listener.stop puts the sentinel
\* and starts to join the thread
StopCall ==
    /\ phase = "exiting"
    /\ hookpc = 0
    /\ atexitHooks # <<>>
    /\ LET l == atexitHooks[Len(atexitHooks)]
       IN  /\ listeners' =
                [listeners EXCEPT
                    ![l].queue = QueuePut(@, Sentinel),
                    ![l].preStop = Len(listeners[l].enqueued),
                    ![l].pendingAtStop = Len(listeners[l].queue)]
           /\ hookpc' = l
    /\ atexitHooks' = SubSeq(atexitHooks, 1, Len(atexitHooks) - 1)
    /\ UNCHANGED <<fmt_keys, phase, queueConfigured, setupCalls, clock, stdout,
                   stderr, fallback, dispatched, producerRaised>>
    /\ UNCHANGED fmtVars

\* listener.stop returns to atexit
StopReturn ==
    /\ phase = "exiting"
    /\ hookpc # 0
    /\ StopMayReturn(hookpc)
    /\ listeners' = [listeners EXCEPT ![hookpc].stopReturned = TRUE]
    /\ hookpc' = 0
    /\ UNCHANGED <<fmt_keys, atexitHooks, phase, queueConfigured, setupCalls,
                   clock, stdout, stderr, fallback, dispatched, producerRaised>>
    /\ UNCHANGED fmtVars

\* every hook has run: the process ends
Finish ==
    /\ phase = "exiting"
    /\ hookpc = 0
    /\ atexitHooks = <<>>
    /\ phase' = "exited"
    /\ UNCHANGED <<fmt_keys, listeners, atexitHooks, hookpc, queueConfigured,
                   setupCalls, clock, stdout, stderr, fallback, dispatched,
                   producerRaised>>
    /\ UNCHANGED fmtVars

MonitorStep == \E l \in 1..Len(listeners) : Monitor(l)

Next ==
    \/ SetupLogging
    \/ Log
    \/ MonitorStep
    \/ Exit
    \/ StopCall
    \/ StopReturn
    \/ Finish

Spec == Init /\ [][Next]_vars

(***************************************************************************)
(* Properties of the formatter (checked under FmtSpec)                     *)
(***************************************************************************)
Formatted == fpc = "formatted" /\ result.ok
Consumed(src) == \E i \in 1..Len(fmt_keys) : fmt_keys[i][2] = src
ImplicitNames == {"message", "timestamp", "exc_info", "stack_info"}

C3_ExtrasPreserved ==
    Formatted =>
        \A i \in 1..Len(record.extra) :
            /\ DictHas(result.json, record.extra[i].k)
            /\ DictGet(result.json, record.extra[i].k) =
                    JsonDefault(record.extra[i].v)

C3_Witness ==
    /\ Formatted
    /\ Len(record.extra) = 2
    /\ \E i \in 1..Len(record.extra) : record.extra[i].v \in ObjValues
    /\ \E i \in 1..Len(record.extra), j \in 1..Len(fmt_keys) :
            record.extra[i].k = fmt_keys[j][1]

\* C4: an extra field named like an always-present field does not shadow it:
\* unless the mapping consumed that field, the output under the name is still
\* the value the formatter computed.
C4_NoShadowing ==
    Formatted =>
        \A name \in ImplicitNames :
            (/\ DictHas(record.extra, name)
             /\ DictHas(AlwaysFields(record), name)
             /\ ~Consumed(name))
            => DictGet(result.json, name) = DictGet(AlwaysFields(record), name)

\* C9: the output keys are the mapping's output keys in mapping order, then
\* the implicit fields the mapping did not consume, then every extra field.
C9_KeyOrder ==
    Formatted =>
        DictKeys(result.json) =
            [i \in 1..Len(fmt_keys) |-> fmt_keys[i][1]]
            \o SelectSeq(DictKeys(AlwaysFields(record)),
                         LAMBDA name : ~Consumed(name))
            \o ExtraKeys(record)

\* C10: under each output key of the mapping the output holds the value of
\* its source: the implicit field's value, else the record's attribute; no
\* later step replaces it.
C10_MappedValues ==
    Formatted =>
        \A i \in 1..Len(fmt_keys) :
            DictGet(result.json, fmt_keys[i][1]) =
                JsonDefault(
                    IF DictHas(AlwaysFields(record), fmt_keys[i][2])
                    THEN DictGet(AlwaysFields(record), fmt_keys[i][2])
                    ELSE GetAttr(record, fmt_keys[i][2]).v)

(***************************************************************************)
(* Properties of the pipeline (checked under Spec)                         *)
(***************************************************************************)
Lines == {stdout[i] : i \in 1..Len(stdout)} \cup {stderr[i] : i \in 1..Len(stderr)}
InStdout(r) == \E i \in 1..Len(stdout) : stdout[i].created = r.created

\* C1: the sink that carries NonErrorFilter receives exactly the DEBUG and
\* INFO records handed to it: each of them that formats is written, and no
\* WARNING, ERROR or CRITICAL record ever is.
C1_NonErrorOnly ==
    /\ \A i \in 1..Len(stdout) : stdout[i].levelno \in {10, 20}
    /\ \A r \in dispatched :
          /\ (r.levelno \in {10, 20} /\ format(fmt_keys, r).ok) => InStdout(r)
          /\ r.levelno \in {30, 40, 50} => ~InStdout(r)

C1_Witness ==
    /\ \E i \in 1..Len(stdout) : stdout[i].levelno \in {10, 20}
    /\ \E r \in dispatched : r.levelno \in {30, 40, 50}

\* C5: when a listener's stop has returned, every record put on its queue
\* before stop was called has been handed to the sinks.
C5_DrainOnStop ==
    \A l \in 1..Len(listeners) :
        listeners[l].stopReturned =>
            /\ listeners[l].preStop >= 0
            /\ Len(listeners[l].handled) >= listeners[l].preStop
            /\ SubSeq(listeners[l].handled, 1, listeners[l].preStop) =
                  SubSeq(listeners[l].enqueued, 1, listeners[l].preStop)

C5_Witness ==
    \E l \in 1..Len(listeners) :
        /\ listeners[l].stopReturned
        /\ listeners[l].pendingAtStop >= 2
        /\ listeners[l].preStop = 2

\* C6: a listener hands records to the sinks in the order they were put on
\* its queue.
C6_Fifo ==
    \A l \in 1..Len(listeners) :
        /\ Len(listeners[l].handled) <= Len(listeners[l].enqueued)
        /\ listeners[l].handled =
              SubSeq(listeners[l].enqueued, 1, Len(listeners[l].handled))

C6_Witness ==
    \E l \in 1..Len(listeners) :
        /\ Len(listeners[l].handled) >= 2
        /\ listeners[l].stopReturned

\* C7: after one or more calls of setup_logging exactly one listener thread
\* runs and exactly one stop hook is registered.
C7_SetupIdempotent ==
    (queueConfigured /\ setupCalls >= 1 /\ phase = "running") =>
        /\ Cardinality(RunningThreads) = 1
        /\ Len(atexitHooks) = 1

\* C8: a record whose formatting fails raises nothing into the producer and
\* does not end the consumer: the records after it still reach the sinks.
C8_FormatFailureContained ==
    /\ ~producerRaised
    /\ \A l \in 1..Len(listeners) : listeners[l].thread # "crashed"
    /\ \A r \in dispatched :
          format(fmt_keys, r).ok => \E line \in Lines : line.created = r.created

C8_Witness ==
    /\ queueConfigured
    /\ ~producerRaised
    /\ \E i \in 1..Len(fallback) :
          \E line \in Lines : line.created > fallback[i]

====
